---- MODULE Spec2Model ----
(***************************************************************************)
(* LAWAgent frontend: the witness-finder workflow (search, client-side     *)
(* filtering, save/delete reconciliation against the remote saved store)  *)
(* of app/static/assets/js/witness-finder.js, the tab controller of the   *)
(* shared UI script (src/unnamed/part_000) and the submit handler of the  *)
(* issue spotter (app/static/assets/js/issue-spotter.js).                  *)
(*                                                                         *)
(* Strings are sequences of one-character strings, so that trim(),         *)
(* toLowerCase() and includes() are computed and not assumed.  An optional *)
(* number (an absent years_experience, an empty input value) is the empty  *)
(* sequence, a present one the one-element sequence <<n>>.                 *)
(*                                                                         *)
(* The page markup is not part of the sources: the model takes the         *)
(* elements the scripts look up by id (form, loading view, filter inputs,  *)
(* result and saved lists, toast container) to be present.                 *)
(***************************************************************************)
EXTENDS Integers, Sequences, FiniteSets, TLC

VARIABLES
  \* ---- witness-finder.js: the `state` object (lines 22-29)
  loading,          \* state.loading
  results,          \* state.results: the Result Set, a sequence of candidates
  filtered,         \* state.filtered: the cached Filtered View
  saved,            \* state.saved: a Map, kept as its entries in insertion order
  \* ---- witness-finder.js: DOM the handlers read and write
  filterSimilarity, \* filterSimilarity.value
  filterExperience, \* filterExperience.value
  filterSector,     \* filterSector.value
  filterLocation,   \* filterLocation.value
  cards,            \* the cards of #wfResults: candidate, save button text/disabled
  savedCards,       \* the cards of #wfSavedList: the candidate of each
  emptyHidden,      \* emptyEl.hidden
  submitDisabled,   \* submitBtn.disabled
  formHidden,       \* form.hidden
  loadingHidden,    \* loadingEl.hidden
  errorText,        \* errorEl: "" when hidden, else the message kind shown
  statusText,       \* statusEl.textContent (message kind)
  \* ---- witness-finder.js: suspended work
  searchReqs,       \* search requests in flight
  saveReqs,         \* save requests in flight: a sequence of [cand, btn]
  deleteReqs,       \* delete requests in flight: a sequence of candidate ids
  fetchPending,     \* the fetchSaved request of init() is in flight
  rafLive,          \* scheduled requestAnimationFrame(tick) callbacks
  etaLive,          \* live setInterval countdown timers
  hideTimers,       \* scheduled setTimeout callbacks of stopLoading, oldest
                    \* first: the `success` argument each one closes over
  \* ---- witness-finder.js: the progress simulator (startLoading, lines 61-98)
  progress,         \* `progress`: the percentage the current segment starts from
  currentSegment,   \* `currentSegment`, 0-based as in the code
  segmentStart,     \* `segmentStart`, in ms
  progressText,     \* progressEl.textContent, the number before the '%'
  etaText,          \* `eta` and etaEl.textContent, as a number
  clock,            \* the time, in ms: performance.now() and the frame timestamps
  \* ---- witness-finder.js: openSources (lines 182-191)
  openTimers,       \* scheduled setTimeout callbacks of openSources, in firing
                    \* order: the url and the delay of each
  opened,           \* the urls window.open has been called with since the last
                    \* click on Open all sources, in call order
  \* ---- witness-finder.js: copyCandidate (lines 158-180)
  clipWrites,       \* the texts handed to navigator.clipboard.writeText whose
                    \* promise has not settled: each a sequence of lines
  \* ---- the saved store behind /api/witness_finder (spec section 6)
  backend,          \* its ids, what it has answered to each request in flight
                    \* ("" before it has applied the request), and the order
                    \* in which it applied the requests not yet resolved
  \* ---- issue-spotter.js: the DOM the submit handler writes, its requests
  isSubmitDisabled, \* submitBtn.disabled (with class "loading" and aria-busy)
  isErrorText,      \* errorEl: "" when hidden, else the message shown
  isStatusText,     \* statusEl.textContent
  isOutput,         \* the output panes: "" as in the markup, else "rendered"
  isReqs,           \* analysis requests in flight
  \* ---- part_000: the tab controller
  tabActive,        \* group -> tab index -> the tab has class "active"
  tabSelected,      \* group -> tab index -> aria-selected = "true"
  tabIndexZero,     \* group -> tab index -> tabindex = "0"
  panelActive,      \* group -> tab index -> its panel has class "active"
  panelHidden,      \* group -> tab index -> its panel has the hidden attribute
  focused,          \* the tab holding the focus, <<group, index>>, or <<>>
  \* ---- the operation last performed: its kind, the candidate or tab id and
  \* the group it was about, the outcome of the request it answered, the toast
  \* it showed (showToast, lines 31-41; "" for none), whether state.saved
  \* held the id (for a search response: state.results held a candidate) when
  \* it began, the element it called focus() on ("" for none)
  \* and the input it was given (form values, a response body; <<>> for none)
  last

wfVars == <<loading, results, filtered, saved, filterSimilarity, filterExperience,
            filterSector, filterLocation, cards, savedCards, emptyHidden,
            submitDisabled,
            formHidden, loadingHidden, errorText, statusText, searchReqs,
            saveReqs, deleteReqs, fetchPending, rafLive, etaLive, hideTimers,
            progress, currentSegment, segmentStart, progressText, etaText, clock,
            openTimers, opened, clipWrites, backend>>

simVars == <<progress, currentSegment, segmentStart, progressText, etaText, clock>>

popVars == <<openTimers, opened, clipWrites>>

tabVars == <<tabActive, tabSelected, tabIndexZero, panelActive, panelHidden, focused>>

isVars == <<isSubmitDisabled, isErrorText, isStatusText, isOutput, isReqs>>

vars == <<wfVars, tabVars, isVars, last>>

(***************************************************************************)
(* Bounds of the model.                                                    *)
(***************************************************************************)
\* longest text typed into the sector / location filter inputs
MaxQueryLen == 2
\* most candidates in one search response
MaxResults == 2
\* most save and delete requests in flight at once, taken together
MaxPending == 2
\* most delayed hide-loading callbacks scheduled at once
MaxTimers == 1
\* latest frame timestamp, in ms
MaxClock == 6400
\* most analysis requests of the issue spotter in flight at once
MaxAnalyses == 2
\* the entries of a candidate's `sources` array
MaxSources == 6

(***************************************************************************)
(* Strings.                                                                *)
(***************************************************************************)
\* String.prototype.toLowerCase, one character
LowerChar(c) == CASE c = "A" -> "a" [] c = "B" -> "b" [] OTHER -> c

\* String.prototype.toLowerCase
ToLowerCase(s) == [i \in 1..Len(s) |-> LowerChar(s[i])]

\* String.prototype.trim: drop the leading and trailing white space
RECURSIVE TrimStart(_)
TrimStart(s) == IF s # <<>> /\ Head(s) = " " THEN TrimStart(Tail(s)) ELSE s

RECURSIVE TrimEnd(_)
TrimEnd(s) ==
  IF s # <<>> /\ s[Len(s)] = " " THEN TrimEnd(SubSeq(s, 1, Len(s) - 1)) ELSE s

Trim(s) == TrimEnd(TrimStart(s))

\* String.prototype.includes: q occurs in s at some offset
RECURSIVE IncludesFrom(_, _, _)
IncludesFrom(s, q, k) ==
  IF k + Len(q) - 1 > Len(s) THEN FALSE
  ELSE IF SubSeq(s, k, k + Len(q) - 1) = q THEN TRUE
  ELSE IncludesFrom(s, q, k + 1)

Includes(s, q) == IncludesFrom(s, q, 1)

\* Number(value || 0) of an optional number: the empty one counts as 0
NumberOrZero(v) == IF v = <<>> THEN 0 ELSE v[1]

(***************************************************************************)
(* Candidates (spec section 3; the fields the handlers read).              *)
(***************************************************************************)
Candidate(id, score, years, sector, location) ==
  [id |-> id, similarity_score |-> score, years_experience |-> years,
   sector |-> sector, location |-> location]

\* the candidates of the spec's scenario (section 8), with a third one that
\* has neither years_experience nor sector
CandA == Candidate("a", 90, <<5>>, <<"A", "b">>, <<"B", " ", "a">>)
CandB == Candidate("b", 40, <<1>>, <<"B", "a">>, <<"b">>)
CandC == Candidate("c", 50, <<>>, <<>>, <<"A">>)

\* what the search backend returns in the reconciler's specification
Catalog == {CandA, CandB}
\* what it returns in the filter's specification
FilterCatalog == {CandA, CandB, CandC}

\* the arrays of at most n candidates of S in which no id occurs twice
DistinctSeqs(S, n) ==
  {q \in UNION {[1..m -> S] : m \in 0..n} :
     \A i, j \in 1..Len(q) : i # j => q[i].id # q[j].id}

(***************************************************************************)
(* Filter Engine: applyFilters (witness-finder.js 265-281).                *)
(***************************************************************************)
\* the callback with the sector test comparing the text as typed, not lowered
PassesFiltersCaseSensitive(candidate, minSimilarity, minExperience, sectorQuery, locationQuery) ==
  IF candidate.similarity_score < minSimilarity THEN FALSE
  ELSE IF NumberOrZero(candidate.years_experience) < minExperience THEN FALSE
  ELSE IF sectorQuery # <<>>
          /\ ~Includes(candidate.sector, sectorQuery) THEN FALSE
  ELSE IF locationQuery # <<>>
          /\ ~Includes(candidate.location, locationQuery) THEN FALSE
  ELSE TRUE

\* the callback of state.results.filter(...): the four tests, in the code's
\* order, each returning false as soon as it fails
PassesFilters(candidate, minSimilarity, minExperience, sectorQuery, locationQuery) ==
  IF candidate.similarity_score < minSimilarity THEN FALSE
  ELSE IF NumberOrZero(candidate.years_experience) < minExperience THEN FALSE
  ELSE IF sectorQuery # <<>>
          /\ ~Includes(ToLowerCase(candidate.sector), sectorQuery) THEN FALSE
  ELSE IF locationQuery # <<>>
          /\ ~Includes(ToLowerCase(candidate.location), locationQuery) THEN FALSE
  ELSE TRUE

\* Array.prototype.filter: the elements that pass, in order
RECURSIVE ArrayFilter(_, _, _, _, _)
ArrayFilter(arr, minSimilarity, minExperience, sectorQuery, locationQuery) ==
  IF arr = <<>> THEN <<>>
  ELSE LET rest == ArrayFilter(Tail(arr), minSimilarity, minExperience,
                               sectorQuery, locationQuery)
       IN IF PassesFilters(Head(arr), minSimilarity, minExperience,
                           sectorQuery, locationQuery)
          THEN <<Head(arr)>> \o rest
          ELSE rest

\* what applyFilters assigns to state.filtered, from the Result Set and the
\* values of the four inputs
ApplyFilters(res, similarityValue, experienceValue, sectorValue, locationValue) ==
  ArrayFilter(res,
              NumberOrZero(similarityValue),
              NumberOrZero(experienceValue),
              ToLowerCase(Trim(sectorValue)),
              ToLowerCase(Trim(locationValue)))

(***************************************************************************)
(* state.saved: a JavaScript Map, as its entries in insertion order.       *)
(***************************************************************************)
MapHas(m, k) == \E i \in 1..Len(m) : m[i].key = k

MapKeys(m) == {m[i].key : i \in 1..Len(m)}

\* a list that is pushed to, where the Map is set
MapSetAppends(m, k, v) == Append(m, [key |-> k, value |-> v])

\* Map.prototype.set: an existing key keeps its place and takes the new value
MapSet(m, k, v) ==
  IF MapHas(m, k)
  THEN [i \in 1..Len(m) |-> IF m[i].key = k THEN [key |-> k, value |-> v] ELSE m[i]]
  ELSE Append(m, [key |-> k, value |-> v])

\* Map.prototype.delete
MapDelete(m, k) == SelectSeq(m, LAMBDA e : e.key # k)

(***************************************************************************)
(* Rendering (witness-finder.js 120-124, 193-263, 328-374).                *)
(***************************************************************************)
\* renderResults: one card per candidate of the Filtered View; the save button
\* reads 'Saved' and is disabled when the candidate's id is in state.saved
RenderResults(view, m) ==
  [i \in 1..Len(view) |->
     [cand |-> view[i],
      text |-> IF MapHas(m, view[i].id) THEN "Saved" ELSE "Save",
      disabled |-> MapHas(m, view[i].id)]]

\* renderEmptyState looking at state.filtered alone
EmptyHiddenWhenViewHolds(res, view) == ~(Len(view) = 0)

\* renderEmptyState: emptyEl.hidden
EmptyHidden(res, view) == ~(Len(res) > 0 /\ Len(view) = 0)

\* renderSaved: one card, with its Remove button, per value of state.saved
RenderSaved(m) == [i \in 1..Len(m) |-> m[i].value]

\* a re-render replaces every card: the buttons the pending save handlers hold
\* are no longer in the document (btn = 0)
Detach(reqs) == [i \in 1..Len(reqs) |-> [reqs[i] EXCEPT !.btn = 0]]

(***************************************************************************)
(* Responses the backend and the transport can produce.                    *)
(*   transport    fetch() rejects                                          *)
(*   non2xx       response.ok is false                                     *)
(*   unparseable  2xx, response.json() rejects                             *)
(*   null         2xx, the body is the JSON value null                     *)
(*   ok, duplicate, other   2xx, a JSON object with that status            *)
(***************************************************************************)
SaveOutcomes == {"transport", "non2xx", "unparseable", "null", "ok", "duplicate", "other"}
DeleteOutcomes == {"transport", "non2xx", "unparseable", "null", "ok", "other"}
\* an outcome that makes the awaited fetch or json() throw into the catch block
Throws(outcome) == outcome \in {"transport", "non2xx", "unparseable"}

\* an entry of the saved list that carries no id
CandNoId == Candidate("", 10, <<>>, <<>>, <<>>)

(***************************************************************************)
(* Initial state: the page after DOMContentLoaded, init() having attached  *)
(* the listeners and called fetchSaved() (witness-finder.js 484-490), and  *)
(* initTabs() having registered the groups (part_000 4-30).                *)
(***************************************************************************)
Op(op, id, outcome, group, shown) ==
  [op |-> op, id |-> id, outcome |-> outcome, group |-> group, toast |-> shown,
   had |-> FALSE, focus |-> "", arg |-> <<>>]

InitWitnessFinder ==
  /\ loading = FALSE
  /\ results = <<>>
  /\ filtered = <<>>
  /\ saved = <<>>
  /\ filterSimilarity = <<0>>
  /\ filterExperience = <<0>>
  /\ filterSector = <<>>
  /\ filterLocation = <<>>
  /\ cards = <<>>
  /\ savedCards = <<>>
  /\ emptyHidden = TRUE
  /\ submitDisabled = FALSE
  /\ formHidden = FALSE
  /\ loadingHidden = TRUE
  /\ errorText = ""
  /\ statusText = ""
  /\ searchReqs = 0
  /\ saveReqs = <<>>
  /\ deleteReqs = <<>>
  /\ fetchPending = TRUE
  /\ rafLive = 0
  /\ etaLive = 0
  /\ hideTimers = <<>>
  /\ openTimers = <<>>
  /\ opened = <<>>
  /\ clipWrites = <<>>

(***************************************************************************)
(* Progress simulator: startLoading, tick, the countdown (witness-finder.js *)
(* 61-98).  Times are integers in ms; the percentage is the number shown   *)
(* in progressEl, Math.floor of the value that sets the bar's width.       *)
(***************************************************************************)
\* `let eta = 6;` (line 62)
InitialEta == 6

\* what stopLoading writes into progressEl (line 106)
CompletedProgress == 100

\* lines 67-71
Segments ==
  << [target |-> 60, duration |-> 1200],
     [target |-> 85, duration |-> 2000],
     [target |-> 98, duration |-> 3000] >>

\* the loading view before any run: nothing has been written into it
InitSimulator ==
  /\ progress = 0
  /\ currentSegment = 0
  /\ segmentStart = 0
  /\ progressText = 0
  /\ etaText = InitialEta
  /\ clock = 0

\* tick without the Math.min(1, ...) of line 80
SegmentProgressUnclamped(base, segment, elapsed) ==
  base + ((segment.target - base) * elapsed) \div segment.duration

\* lines 79-82: Math.floor(progress + (target - progress) * fraction), with
\* fraction = Math.min(1, elapsed / duration)
SegmentProgress(base, segment, elapsed) ==
  IF elapsed >= segment.duration THEN segment.target
  ELSE base + ((segment.target - base) * elapsed) \div segment.duration

\* line 84: `fraction >= 1 && currentSegment < segments.length - 1`
SegmentEnds(segment, elapsed, index) ==
  elapsed >= segment.duration /\ index < Len(Segments) - 1

\* an animation frame with timestamp `now` runs tick (lines 75-90): it
\* re-schedules itself while state.loading holds and ends its chain otherwise
Tick(now) ==
  /\ rafLive > 0
  /\ now >= clock
  /\ now <= MaxClock
  /\ clock' = now
  /\ IF ~loading
     THEN /\ rafLive' = rafLive - 1
          /\ UNCHANGED <<progress, currentSegment, segmentStart, progressText>>
     ELSE LET segment == Segments[currentSegment + 1]
              elapsed == now - segmentStart
          IN /\ progressText' = SegmentProgress(progress, segment, elapsed)
             /\ IF SegmentEnds(segment, elapsed, currentSegment)
                THEN /\ progress' = segment.target
                     /\ currentSegment' = currentSegment + 1
                     /\ segmentStart' = now
                ELSE UNCHANGED <<progress, currentSegment, segmentStart>>
             /\ UNCHANGED rafLive
  /\ last' = Op("tick", "", "", "", "")
  /\ UNCHANGED <<loading, results, filtered, saved, filterSimilarity,
                 filterExperience, filterSector, filterLocation, cards, savedCards,
                 emptyHidden, submitDisabled, formHidden, loadingHidden, errorText,
                 statusText, searchReqs, saveReqs, deleteReqs, fetchPending,
                 etaLive, hideTimers, etaText, tabVars, isVars,
                 popVars, backend>>

\* line 96: `eta = Math.max(0, eta - 1);`
EtaAfterTick(eta) == IF eta - 1 > 0 THEN eta - 1 ELSE 0

\* the setInterval callback (lines 94-98)
EtaTick ==
  /\ etaLive > 0
  /\ etaText' = IF loading THEN EtaAfterTick(etaText) ELSE etaText
  /\ last' = Op("countdown", "", "", "", "")
  /\ UNCHANGED <<loading, results, filtered, saved, filterSimilarity,
                 filterExperience, filterSector, filterLocation, cards, savedCards,
                 emptyHidden, submitDisabled, formHidden, loadingHidden, errorText,
                 statusText, searchReqs, saveReqs, deleteReqs, fetchPending,
                 rafLive, etaLive, hideTimers, progress, currentSegment,
                 segmentStart, progressText, clock, tabVars, isVars,
                 popVars, backend>>

(***************************************************************************)
(* Search: onSubmit, startLoading, performSearch, stopLoading              *)
(* (witness-finder.js 50-118, 397-463).                                    *)
(***************************************************************************)
\* onSubmit without its re-entrancy guard
OnSubmitNeverReturnsEarly == FALSE

\* onSubmit line 420: `if (state.loading) return;`
OnSubmitReturnsEarly == loading

\* lines 422-425: a field is missing when its value is empty after trim()
IsMissing(value) == Trim(value) = <<>>

\* the values applyFilters() reads when it runs
CurrentFilters(res) ==
  ApplyFilters(res, filterSimilarity, filterExperience, filterSector, filterLocation)

\* applyFilters() then renderResults(): state.filtered, the cards, the empty
\* state; every save button a pending handler holds leaves the document
ApplyAndRender(res, view, m) ==
  /\ filtered' = view
  /\ cards' = RenderResults(view, m)
  /\ emptyHidden' = EmptyHidden(res, view)
  /\ saveReqs' = Detach(saveReqs)

\* the submit event, the form holding `industry` and `description`
OnSubmit(industry, description) ==
  IF OnSubmitReturnsEarly
  THEN /\ last' = [Op("submit", "", "ignored", "", "")
                    EXCEPT !.arg = <<industry, description>>]
       /\ UNCHANGED <<wfVars, tabVars, isVars>>
  ELSE IF IsMissing(industry) \/ IsMissing(description)
  THEN /\ errorText' = "Industry and description are required."
       /\ last' = [Op("submit", "", "invalid", "", "")
                    EXCEPT !.arg = <<industry, description>>]
       /\ UNCHANGED <<loading, results, filtered, saved, filterSimilarity,
                      filterExperience, filterSector, filterLocation, cards,
                      savedCards, emptyHidden, submitDisabled, formHidden,
                      loadingHidden, statusText, searchReqs, saveReqs,
                      deleteReqs, fetchPending, rafLive, etaLive, hideTimers,
                      tabVars, simVars, isVars,
                 popVars, backend>>
  ELSE \* startLoading(); updateStatus(...); performSearch(payload) is awaited
       /\ loading' = TRUE
       /\ formHidden' = TRUE
       /\ loadingHidden' = FALSE
       /\ submitDisabled' = TRUE
       /\ errorText' = ""
       /\ progress' = 0
       /\ etaText' = InitialEta
       /\ progressText' = 0
       /\ currentSegment' = 0
       /\ segmentStart' = clock
       /\ rafLive' = rafLive + 1
       /\ etaLive' = etaLive + 1
       /\ statusText' = "Searching the web for expert witnesses"
       /\ searchReqs' = searchReqs + 1
       /\ last' = [Op("submit", "", "sent", "", "")
                    EXCEPT !.arg = <<industry, description>>]
       /\ UNCHANGED <<results, filtered, saved, filterSimilarity, filterExperience,
                      filterSector, filterLocation, cards, savedCards, emptyHidden,
                      saveReqs, deleteReqs, fetchPending, hideTimers, clock,
                      tabVars, isVars,
                 popVars, backend>>

\* stopLoading leaving the percentage and the countdown as the last tick wrote
\* them
ProgressAfterStopKept(shown) == shown

\* lines 106-108: progressEl reads '100%' (and etaEl '00') whatever they showed
ProgressAfterStop(shown) == CompletedProgress

\* stopLoading clearing the flag after a successful search only
LoadingAfterStopOnFailure(success) == ~success

\* line 102: `state.loading = false;`
LoadingAfterStop(success) == FALSE

\* stopLoading(success): the flag, the submit button, the timers whose handles
\* the state holds, the final readings, and the delayed callback that hides
\* the loading view
StopLoading(success) ==
  /\ loading' = LoadingAfterStop(success)
  /\ submitDisabled' = FALSE
  /\ rafLive' = IF rafLive > 0 THEN rafLive - 1 ELSE 0
  /\ etaLive' = IF etaLive > 0 THEN etaLive - 1 ELSE 0
  /\ progressText' = ProgressAfterStop(progressText)
  /\ etaText' = 0
  /\ hideTimers' = Append(hideTimers, success)

SearchOutcomes == {"transport", "non2xx", "non2xx_detail", "unparseable", "ok"}

\* the bodies of a 2xx search response that parses: `candidates` an array, the
\* field absent, the field holding something that is no array, the body null
BodyKinds == {"array", "absent", "not_array", "null"}

SearchBodies(kinds) ==
  (IF "array" \in kinds
   THEN {[kind |-> "array", candidates |-> q] : q \in DistinctSeqs(Catalog, MaxResults)}
   ELSE {})
  \cup {[kind |-> k, candidates |-> <<>>] : k \in kinds \ {"array"}}

\* line 441: `Array.isArray(data?.candidates) ? data.candidates : []`
CandidatesOf(body) == IF body.kind = "array" THEN body.candidates ELSE <<>>

\* onSubmit appending the response's candidates to the Result Set it holds
ResultsAfterSearchMerged(previous, candidates) == previous \o candidates

\* line 442: `state.results = candidates;`
ResultsAfterSearch(previous, candidates) == candidates

\* the catch block of onSubmit emptying the Result Set
ResultsAfterFailureCleared(previous) == <<>>

\* lines 454-462: the catch block assigns nothing to state.results
ResultsAfterFailure(previous) == previous

\* what state.filtered holds once the search response has been handled (line 443)
FilteredAfterSearch(candidates) == CurrentFilters(candidates)

\* the message of the Error that reaches the catch block of onSubmit
SearchErrorMessage(outcome) ==
  CASE outcome = "non2xx_detail" -> "detail"
    [] outcome = "non2xx" -> "Search failed."
    [] outcome = "transport" -> "fetch error message"
    [] OTHER -> "json error message"

\* the search request resolves; `body` is the parsed body of an "ok" response
SearchResponse(outcome, body) ==
  /\ searchReqs > 0
  /\ Len(hideTimers) < MaxTimers
  /\ searchReqs' = searchReqs - 1
  /\ StopLoading(outcome = "ok")
  /\ IF outcome = "ok"
     THEN LET candidates == CandidatesOf(body)
          IN /\ results' = ResultsAfterSearch(results, candidates)
             /\ ApplyAndRender(results', FilteredAfterSearch(results'), saved)
             /\ statusText' = IF Len(candidates) > 0 THEN "Found candidates"
                              ELSE "No candidates returned. Try refining your query."
             /\ UNCHANGED errorText
     ELSE /\ errorText' = SearchErrorMessage(outcome)
          /\ statusText' = "Search failed. Please try again."
          /\ results' = ResultsAfterFailure(results)
          /\ UNCHANGED <<filtered, cards, emptyHidden, saveReqs>>
  /\ last' = [Op("searchResponse", "", outcome, "", "")
               EXCEPT !.arg = body, !.had = Len(results) > 0]
  /\ UNCHANGED <<saved, filterSimilarity, filterExperience, filterSector,
                 filterLocation, savedCards, formHidden, loadingHidden,
                 deleteReqs, fetchPending, progress, currentSegment,
                 segmentStart, clock, tabVars, isVars,
                 popVars, backend>>

\* line 115: `if (!success && focusTarget) focusTarget.focus();`
FocusAfterHide(success) == IF success THEN "" ELSE "firstInput"

\* the setTimeout callback of stopLoading (lines 110-117)
HideTimerFires ==
  /\ hideTimers # <<>>
  /\ hideTimers' = Tail(hideTimers)
  /\ loadingHidden' = TRUE
  /\ formHidden' = FALSE
  /\ last' = [Op("hideTimer", "", "", "", "")
               EXCEPT !.focus = FocusAfterHide(Head(hideTimers))]
  /\ UNCHANGED <<loading, results, filtered, saved, filterSimilarity,
                 filterExperience, filterSector, filterLocation, cards, savedCards,
                 emptyHidden, submitDisabled, errorText, statusText,
                 searchReqs, saveReqs, deleteReqs, fetchPending, rafLive, etaLive,
                 tabVars, simVars, isVars,
                 popVars, backend>>

(***************************************************************************)
(* Open all sources: openSources (witness-finder.js 182-191).  `sources` is *)
(* the url of each entry of candidate.sources, "" for an entry without one; *)
(* an absent array is the empty one (`candidate.sources || []`).            *)
(***************************************************************************)
MaxSourcesOpened == 4

OpenStagger == 150

\* openSources cutting the array to four entries before dropping the empty urls
SourceLinksOfFirstFour(sources) == SelectSeq(SubSeq(sources, 1, IF Len(sources) < 4 THEN Len(sources) ELSE 4), LAMBDA url : url # "")

\* line 183: `.map((source) => source.url).filter(Boolean)`
SourceLinks(sources) == SelectSeq(sources, LAMBDA url : url # "")

\* line 188: `links.slice(0, 4)`
SliceOpened(links) ==
  SubSeq(links, 1, IF Len(links) < MaxSourcesOpened THEN Len(links) ELSE MaxSourcesOpened)

\* a click on Open all sources of a card.  The model takes the windows of an
\* earlier click to have opened: clicks less than 450 ms apart are left out.
OpenSources(sources) ==
  /\ openTimers = <<>>
  /\ LET links == SourceLinks(sources)
     IN /\ openTimers' = [k \in 1..Len(SliceOpened(links)) |->
                            [url |-> SliceOpened(links)[k],
                             delay |-> (k - 1) * OpenStagger]]
        /\ last' = [Op("openSources", "", "", "",
                       IF links = <<>> THEN "No sources available for this candidate."
                       ELSE "")
                     EXCEPT !.arg = sources]
  /\ opened' = <<>>
  /\ UNCHANGED <<loading, results, filtered, saved, filterSimilarity,
                 filterExperience, filterSector, filterLocation, cards, savedCards,
                 emptyHidden, submitDisabled, formHidden, loadingHidden, errorText,
                 statusText, searchReqs, saveReqs, deleteReqs, fetchPending,
                 rafLive, etaLive, hideTimers, tabVars, simVars, isVars, clipWrites, backend>>

\* the earliest of the scheduled callbacks runs: window.open(url, ...)
OpenTimerFires ==
  /\ openTimers # <<>>
  /\ opened' = Append(opened, Head(openTimers).url)
  /\ openTimers' = Tail(openTimers)
  /\ last' = Op("openWindow", "", "", "", "")
  /\ UNCHANGED <<loading, results, filtered, saved, filterSimilarity,
                 filterExperience, filterSector, filterLocation, cards, savedCards,
                 emptyHidden, submitDisabled, formHidden, loadingHidden, errorText,
                 statusText, searchReqs, saveReqs, deleteReqs, fetchPending,
                 rafLive, etaLive, hideTimers, tabVars, simVars, isVars, clipWrites, backend>>

(***************************************************************************)
(* Copy: copyCandidate (witness-finder.js 158-180).  The candidate is the   *)
(* record of its ten copied fields; a field is <<>> when the candidate has  *)
(* none and <<v>> when it holds v.  The text is its sequence of lines, a    *)
(* line the label before the colon and the value interpolated after it      *)
(* (<<>> prints as `undefined`).                                            *)
(***************************************************************************)
\* a string field passes `candidate.x ? ... : ''` when present and not ''
Truthy(field) == field # <<>> /\ field[1] # ""

\* an array field passes `candidate.x && candidate.x.length`
NonEmptyArray(field) == field # <<>> /\ field[1] # <<>>

Line(label, field) == <<[label |-> label, value |-> field]>>

\* line 160: `Name: ${candidate.name}`, under no condition
NameLine(candidate) == Line("Name", candidate.name)

\* line 168: `Similarity: ${candidate.similarity_score}%`, under no condition
SimilarityLine(candidate) == Line("Similarity", candidate.similarity_score)

\* lines 170-171: the skills, then the links
CopyTail(candidate) ==
  (IF NonEmptyArray(candidate.skills) THEN Line("Skills", candidate.skills) ELSE <<>>)
  \o (IF NonEmptyArray(candidate.links) THEN Line("Links", candidate.links) ELSE <<>>)

\* lines 159-174: the array of the ten entries, '' for an omitted one, after
\* `.filter(Boolean)`
CopyText(candidate) ==
  NameLine(candidate)
  \o (IF Truthy(candidate.title) THEN Line("Title", candidate.title) ELSE <<>>)
  \o (IF Truthy(candidate.organization)
      THEN Line("Organization", candidate.organization) ELSE <<>>)
  \o (IF Truthy(candidate.sector) THEN Line("Sector", candidate.sector) ELSE <<>>)
  \o (IF Truthy(candidate.location) THEN Line("Location", candidate.location) ELSE <<>>)
  \o (IF candidate.years_experience # <<>>   \* Number.isFinite(...)
      THEN Line("Years experience", candidate.years_experience) ELSE <<>>)
  \o SimilarityLine(candidate)
  \o (IF Truthy(candidate.summary) THEN Line("Summary", candidate.summary) ELSE <<>>)
  \o CopyTail(candidate)

\* a click on Copy of a card or of a saved card: the text is handed to
\* navigator.clipboard.writeText.  A click while an earlier write has not
\* settled is left out.
CopyCandidate(candidate) ==
  /\ clipWrites = <<>>
  /\ clipWrites' = <<CopyText(candidate)>>
  /\ last' = [Op("copy", "", "", "", "") EXCEPT !.arg = candidate]
  /\ UNCHANGED <<loading, results, filtered, saved, filterSimilarity,
                 filterExperience, filterSector, filterLocation, cards, savedCards,
                 emptyHidden, submitDisabled, formHidden, loadingHidden, errorText,
                 statusText, searchReqs, saveReqs, deleteReqs, fetchPending,
                 rafLive, etaLive, hideTimers, tabVars, simVars, isVars,
                 openTimers, opened, backend>>

\* lines 176-179: the promise of writeText settles
ClipboardSettles(granted) ==
  /\ clipWrites # <<>>
  /\ clipWrites' = Tail(clipWrites)
  /\ last' = Op("copied", "", IF granted THEN "ok" ELSE "rejected", "",
                IF granted THEN "Candidate copied." ELSE "Unable to copy candidate.")
  /\ UNCHANGED <<loading, results, filtered, saved, filterSimilarity,
                 filterExperience, filterSector, filterLocation, cards, savedCards,
                 emptyHidden, submitDisabled, formHidden, loadingHidden, errorText,
                 statusText, searchReqs, saveReqs, deleteReqs, fetchPending,
                 rafLive, etaLive, hideTimers, tabVars, simVars, isVars,
                 openTimers, opened, backend>>

(***************************************************************************)
(* Filter inputs: handleFilters (witness-finder.js 392-395, 465-472).      *)
(***************************************************************************)
\* the event of one filter input, whose value is now `value`
HandleFilters(input, value) ==
  /\ filterSimilarity' = IF input = "similarity" THEN value ELSE filterSimilarity
  /\ filterExperience' = IF input = "experience" THEN value ELSE filterExperience
  /\ filterSector' = IF input = "sector" THEN value ELSE filterSector
  /\ filterLocation' = IF input = "location" THEN value ELSE filterLocation
  /\ ApplyAndRender(results,
                    ApplyFilters(results, filterSimilarity', filterExperience',
                                 filterSector', filterLocation'),
                    saved)
  /\ last' = Op("filters", "", "", "", "")
  /\ UNCHANGED <<loading, results, saved, savedCards, submitDisabled, formHidden,
                 loadingHidden, errorText, statusText, searchReqs, deleteReqs,
                 fetchPending, rafLive, etaLive, hideTimers, tabVars, simVars,
                 isVars,
                 popVars, backend>>

\* the inputs that are not of type range: initFilters listens for 'keyup' on
\* them (line 468)
TextFilterInputs == {"sector", "location"}

\* the text of a sector or location input changes and no keyup has followed
\* yet: a key is still held down, or the text was pasted, cut or dropped with
\* the mouse.  No handler runs
EditFilterText(input, value) ==
  /\ input \in TextFilterInputs
  /\ filterSector' = IF input = "sector" THEN value ELSE filterSector
  /\ filterLocation' = IF input = "location" THEN value ELSE filterLocation
  /\ <<filterSector', filterLocation'>> # <<filterSector, filterLocation>>
  /\ last' = Op("edit", "", "", "", "")
  /\ UNCHANGED <<loading, results, filtered, saved, filterSimilarity,
                 filterExperience, cards, savedCards, emptyHidden, submitDisabled,
                 formHidden, loadingHidden, errorText, statusText, searchReqs,
                 saveReqs, deleteReqs, fetchPending, rafLive, etaLive, hideTimers,
                 tabVars, simVars, isVars,
                 popVars, backend>>

(***************************************************************************)
(* Save/Delete Reconciler: handleSave, handleDelete, fetchSaved            *)
(* (witness-finder.js 283-326, 376-390).                                   *)
(***************************************************************************)
RemoveAt(q, i) == SubSeq(q, 1, i - 1) \o SubSeq(q, i + 1, Len(q))

Pending == Len(saveReqs) + Len(deleteReqs)

(***************************************************************************)
(* The saved store behind /api/witness_finder/save and /saved (spec         *)
(* section 6): it applies each request atomically, at some moment between   *)
(* the client's fetch() and the response.  backend.saves and                *)
(* backend.deletes run parallel to saveReqs and deleteReqs.                 *)
(***************************************************************************)
Ids == {c.id : c \in Catalog}

\* the candidates in the order the store lists them
CatalogOrder == <<CandA, CandB, CandC>>

InitBackend(ids) ==
  backend = [store |-> ids, saves |-> <<>>, deletes |-> <<>>, fetch |-> <<>>,
             order |-> <<>>, reordered |-> FALSE]

\* GET /saved: the array of the saved candidates
StoreList(ids) == SelectSeq(CatalogOrder, LAMBDA c : c.id \in ids)

\* the position of the first `token` in q, 0 when q holds none
RECURSIVE FirstAt(_, _, _)
FirstAt(q, token, k) ==
  IF k > Len(q) THEN 0 ELSE IF q[k] = token THEN k ELSE FirstAt(q, token, k + 1)

\* the store's record once the response to request i of `kind` has resolved
\* at the client: `reordered` is set when it overtook the response to a
\* request applied earlier; the requests after i move up one place
Resolved(b, kind, i) ==
  LET k == FirstAt(b.order, <<kind, i>>, 1)
      rest == IF k = 0 THEN b.order ELSE RemoveAt(b.order, k)
  IN [b EXCEPT !.order = [j \in 1..Len(rest) |->
                            IF rest[j][1] = kind /\ rest[j][2] > i
                            THEN <<kind, rest[j][2] - 1>> ELSE rest[j]],
               !.reordered = @ \/ k > 1]

\* POST /save reaches the store: status "duplicate" when the id is present
BackendSave(i) ==
  /\ i \in 1..Len(saveReqs)
  /\ backend.saves[i] = ""
  /\ backend' = [backend EXCEPT
                   !.store = @ \cup {saveReqs[i].cand.id},
                   !.saves[i] = IF saveReqs[i].cand.id \in backend.store
                                THEN "duplicate" ELSE "ok",
                   !.order = Append(@, <<"save", i>>)]
  /\ last' = Op("backendSave", saveReqs[i].cand.id, "", "", "")
  /\ UNCHANGED <<loading, results, filtered, saved, filterSimilarity,
                 filterExperience, filterSector, filterLocation, cards, savedCards,
                 emptyHidden, submitDisabled, formHidden, loadingHidden, errorText,
                 statusText, searchReqs, saveReqs, deleteReqs, fetchPending,
                 rafLive, etaLive, hideTimers, tabVars, simVars, isVars, popVars>>

\* DELETE /saved/{id} reaches the store; `status` is what it answers when the
\* id is absent
BackendDelete(i, status) ==
  /\ i \in 1..Len(deleteReqs)
  /\ backend.deletes[i] = ""
  /\ backend' = [backend EXCEPT
                   !.store = @ \ {deleteReqs[i]},
                   !.deletes[i] = IF deleteReqs[i] \in backend.store
                                  THEN "ok" ELSE status,
                   !.order = Append(@, <<"delete", i>>)]
  /\ last' = Op("backendDelete", deleteReqs[i], "", "", "")
  /\ UNCHANGED <<loading, results, filtered, saved, filterSimilarity,
                 filterExperience, filterSector, filterLocation, cards, savedCards,
                 emptyHidden, submitDisabled, formHidden, loadingHidden, errorText,
                 statusText, searchReqs, saveReqs, deleteReqs, fetchPending,
                 rafLive, etaLive, hideTimers, tabVars, simVars, isVars, popVars>>

\* GET /saved reaches the store: the response carries the list as it is now
BackendFetch ==
  /\ fetchPending
  /\ backend.fetch = <<>>
  /\ backend' = [backend EXCEPT !.fetch = <<StoreList(backend.store)>>,
                                !.order = Append(@, <<"fetch", 0>>)]
  /\ last' = Op("backendFetch", "", "", "", "")
  /\ UNCHANGED <<loading, results, filtered, saved, filterSimilarity,
                 filterExperience, filterSector, filterLocation, cards, savedCards,
                 emptyHidden, submitDisabled, formHidden, loadingHidden, errorText,
                 statusText, searchReqs, saveReqs, deleteReqs, fetchPending,
                 rafLive, etaLive, hideTimers, tabVars, simVars, isVars, popVars>>

\* a click on the Save button of card k (a disabled button receives no click):
\* handleSave runs to its `await fetch(...)` and touches nothing else
HandleSave(k) ==
  /\ k \in 1..Len(cards)
  /\ ~cards[k].disabled
  /\ Pending < MaxPending
  /\ saveReqs' = Append(saveReqs, [cand |-> cards[k].cand, btn |-> k])
  /\ backend' = [backend EXCEPT !.saves = Append(@, "")]
  /\ last' = Op("save", cards[k].cand.id, "sent", "", "")
  /\ UNCHANGED <<loading, results, filtered, saved, filterSimilarity,
                 filterExperience, filterSector, filterLocation, cards, savedCards,
                 emptyHidden, submitDisabled, formHidden, loadingHidden, errorText,
                 statusText, searchReqs, deleteReqs, fetchPending, rafLive,
                 etaLive, hideTimers, tabVars, simVars, isVars,
                 popVars>>

\* handleSave dropping its response while a delete of the same id is pending
SavedAfterSaveUnlessDeleting(m, candidate, outcome) == IF Throws(outcome) \/ (\E i \in 1..Len(deleteReqs) : deleteReqs[i] = candidate.id) THEN m ELSE MapSet(m, candidate.id, candidate)

\* state.saved after the response: line 292 runs once `await response.json()`
\* has returned, whatever the body holds
SavedAfterSave(m, candidate, outcome) ==
  IF Throws(outcome) THEN m ELSE MapSet(m, candidate.id, candidate)

\* the toast of lines 293-297, or of the catch block (`data.status` throws on null)
ToastAfterSave(outcome) ==
  IF Throws(outcome) \/ outcome = "null" THEN "Unable to save candidate."
  ELSE IF outcome = "duplicate" THEN "Already saved."
  ELSE "Candidate saved."

\* handleSave marking the button inside the else branch of the status test
CardsAfterSaveNotDuplicate(cs, btn, outcome) ==
  IF Throws(outcome) \/ outcome \in {"null", "duplicate"} \/ btn = 0 THEN cs
  ELSE [cs EXCEPT ![btn].text = "Saved", ![btn].disabled = TRUE]

\* lines 298-301: the button the handler was given reads 'Saved' and is disabled
CardsAfterSave(cs, btn, outcome) ==
  IF Throws(outcome) \/ outcome = "null" \/ btn = 0 THEN cs
  ELSE [cs EXCEPT ![btn].text = "Saved", ![btn].disabled = TRUE]

\* the response to pending save request i
HandleSaveResponse(i, outcome) ==
  /\ i \in 1..Len(saveReqs)
  /\ saveReqs' = RemoveAt(saveReqs, i)
  /\ backend' = [Resolved(backend, "save", i)
                   EXCEPT !.saves = RemoveAt(@, i)]
  /\ saved' = SavedAfterSave(saved, saveReqs[i].cand, outcome)
  /\ cards' = CardsAfterSave(cards, saveReqs[i].btn, outcome)
  /\ savedCards' = IF Throws(outcome) \/ outcome = "null" THEN savedCards
                   ELSE RenderSaved(saved')
  /\ last' = [Op("saveResponse", saveReqs[i].cand.id, outcome, "",
                 ToastAfterSave(outcome))
               EXCEPT !.had = MapHas(saved, saveReqs[i].cand.id)]
  /\ UNCHANGED <<loading, results, filtered, filterSimilarity, filterExperience,
                 filterSector, filterLocation, emptyHidden, submitDisabled,
                 formHidden, loadingHidden, errorText, statusText, searchReqs,
                 deleteReqs, fetchPending, rafLive, etaLive, hideTimers, tabVars, simVars, isVars,
                 popVars>>

\* a click on the Remove button of saved card k: handleDelete runs to its await
HandleDelete(k) ==
  /\ k \in 1..Len(savedCards)
  /\ Pending < MaxPending
  /\ deleteReqs' = Append(deleteReqs, savedCards[k].id)
  /\ backend' = [backend EXCEPT !.deletes = Append(@, "")]
  /\ last' = Op("delete", savedCards[k].id, "sent", "", "")
  /\ UNCHANGED <<loading, results, filtered, saved, filterSimilarity,
                 filterExperience, filterSector, filterLocation, cards, savedCards,
                 emptyHidden, submitDisabled, formHidden, loadingHidden, errorText,
                 statusText, searchReqs, saveReqs, fetchPending, rafLive,
                 etaLive, hideTimers, tabVars, simVars, isVars,
                 popVars>>

\* handleDelete without the test of data.status
SavedAfterDeleteAnyStatus(m, candidateId, outcome) ==
  IF Throws(outcome) \/ outcome = "null" THEN m ELSE MapDelete(m, candidateId)

\* handleDelete clearing the whole Map on success
SavedAfterDeleteClears(m, candidateId, outcome) == IF outcome = "ok" THEN <<>> ELSE m

\* state.saved after the response: lines 316-317
SavedAfterDelete(m, candidateId, outcome) ==
  IF outcome = "ok" THEN MapDelete(m, candidateId) ELSE m

\* the toast of line 318 or of the catch block; none for another status
ToastAfterDelete(outcome) ==
  IF outcome = "ok" THEN "Removed from saved."
  ELSE IF Throws(outcome) \/ outcome = "null" THEN "Unable to remove candidate."
  ELSE ""

\* the response to pending delete request i
HandleDeleteResponse(i, outcome) ==
  /\ i \in 1..Len(deleteReqs)
  /\ deleteReqs' = RemoveAt(deleteReqs, i)
  /\ backend' = [Resolved(backend, "delete", i)
                   EXCEPT !.deletes = RemoveAt(@, i)]
  /\ saved' = SavedAfterDelete(saved, deleteReqs[i], outcome)
  /\ IF outcome = "ok"
     THEN /\ savedCards' = RenderSaved(saved')
          /\ ApplyAndRender(results, CurrentFilters(results), saved')
     ELSE UNCHANGED <<savedCards, filtered, cards, emptyHidden, saveReqs>>
  /\ last' = [Op("deleteResponse", deleteReqs[i], outcome, "",
                 ToastAfterDelete(outcome))
               EXCEPT !.had = MapHas(saved, deleteReqs[i])]
  /\ UNCHANGED <<loading, results, filterSimilarity, filterExperience,
                 filterSector, filterLocation, submitDisabled, formHidden,
                 loadingHidden, errorText, statusText, searchReqs, fetchPending,
                 rafLive, etaLive, hideTimers, tabVars, simVars, isVars,
                 popVars>>

\* the arrays GET /api/witness_finder/saved may answer with
SavedLists == DistinctSeqs(Catalog \cup {CandNoId}, MaxResults)

FetchOutcomes == {"transport", "non2xx", "unparseable", "not_array", "array"}

\* fetchSaved setting every entry of the list, with an id or without
RECURSIVE SavedAfterFetchAll(_, _)
SavedAfterFetchAll(m, data) ==
  IF data = <<>> THEN m
  ELSE SavedAfterFetchAll(MapSet(m, Head(data).id, Head(data)), Tail(data))

\* lines 381-385: every entry with a truthy id is set under that id
RECURSIVE SavedAfterFetch(_, _)
SavedAfterFetch(m, data) ==
  IF data = <<>> THEN m
  ELSE SavedAfterFetch(IF Head(data).id # "" THEN MapSet(m, Head(data).id, Head(data))
                       ELSE m,
                       Tail(data))

\* the response to the fetchSaved request of init()
FetchSavedResponse(outcome, data) ==
  /\ fetchPending
  /\ fetchPending' = FALSE
  /\ backend' = Resolved(backend, "fetch", 0)
  /\ saved' = IF outcome = "array" THEN SavedAfterFetch(saved, data) ELSE saved
  /\ savedCards' = IF Throws(outcome) THEN savedCards ELSE RenderSaved(saved')
  /\ last' = [Op("fetchSaved", "", outcome, "", "") EXCEPT !.arg = data]
  /\ UNCHANGED <<loading, results, filtered, filterSimilarity, filterExperience,
                 filterSector, filterLocation, cards, emptyHidden, submitDisabled,
                 formHidden, loadingHidden, errorText, statusText,
                 searchReqs, saveReqs, deleteReqs, rafLive, etaLive, hideTimers,
                 tabVars, simVars, isVars,
                 popVars>>

(***************************************************************************)
(* Tab controller (part_000 2-76, 151-155).                                *)
(***************************************************************************)
\* the tab lists of the page, each with the ids of its tabs in document order;
\* every tab names its own panel in aria-controls.  "results" is the group the
\* issue spotter activates (issue-spotter.js 20, 64); the second list has no
\* data-tab-group and is keyed by its position (part_000 line 6)
GroupTabs ==
  [g \in {"results", "tab-group-1"} |->
     IF g = "results" THEN <<"tab-summary", "tab-findings", "tab-citations", "tab-json">>
     ELSE <<"tab-a", "tab-b">>]

\* tabGroups after initTabs: the registered group ids
Registered == DOMAIN GroupTabs

\* what a caller may pass to activateTab
GroupIdArgs == Registered \cup {"no-such-group"}
TabIdArgs == UNION {{GroupTabs[g][i] : i \in 1..Len(GroupTabs[g])} : g \in Registered}
             \cup {"no-such-tab"}

\* tabs.findIndex((tab) => tab.id === id), 1-based, 0 for "not found"
FindIndex(tabs, id) ==
  IF \E i \in 1..Len(tabs) : tabs[i] = id
  THEN CHOOSE i \in 1..Len(tabs) : tabs[i] = id /\ \A j \in 1..(i - 1) : tabs[j] # id
  ELSE 0

\* the markup: the first tab of each list carries class "active" and its panel
\* alone is not hidden; initTabs derives tabindex and aria-selected (lines 16-18)
InitTabs ==
  /\ tabActive = [g \in Registered |-> [i \in 1..Len(GroupTabs[g]) |-> i = 1]]
  /\ tabSelected = [g \in Registered |-> [i \in 1..Len(GroupTabs[g]) |-> i = 1]]
  /\ tabIndexZero = [g \in Registered |-> [i \in 1..Len(GroupTabs[g]) |-> i = 1]]
  /\ panelActive = [g \in Registered |-> [i \in 1..Len(GroupTabs[g]) |-> i = 1]]
  /\ panelHidden = [g \in Registered |-> [i \in 1..Len(GroupTabs[g]) |-> i # 1]]
  /\ focused = <<>>

\* line 63: `const isActive = tab.id === tabId;`
IsActive(tab, tabId) == tab = tabId

\* line 57: `if (!group) return;`
ActivateReturnsEarly(groupId) == groupId \notin Registered

\* activateTab running its forEach over the tabs of every registered group
ActivateTabEveryGroup(groupId, tabId) ==
  IF ActivateReturnsEarly(groupId)
  THEN UNCHANGED <<tabActive, tabSelected, tabIndexZero, panelActive, panelHidden>>
  ELSE LET mark == [g \in Registered |->
                     [i \in 1..Len(GroupTabs[g]) |-> IsActive(GroupTabs[g][i], tabId)]]
       IN /\ tabActive' = mark
          /\ tabSelected' = mark
          /\ tabIndexZero' = mark
          /\ panelActive' = mark
          /\ panelHidden' = [g \in Registered |->
                               [i \in 1..Len(GroupTabs[g]) |-> ~mark[g][i]]]

\* activateTab(groupId, tabId): the forEach over the tabs of the group
ActivateTab(groupId, tabId) ==
  IF ActivateReturnsEarly(groupId)
  THEN UNCHANGED <<tabActive, tabSelected, tabIndexZero, panelActive, panelHidden>>
  ELSE LET tabs == GroupTabs[groupId]
           mark == [i \in 1..Len(tabs) |-> IsActive(tabs[i], tabId)]
       IN /\ tabActive' = [tabActive EXCEPT ![groupId] = mark]
          /\ tabSelected' = [tabSelected EXCEPT ![groupId] = mark]
          /\ tabIndexZero' = [tabIndexZero EXCEPT ![groupId] = mark]
          /\ panelActive' = [panelActive EXCEPT ![groupId] = mark]
          /\ panelHidden' = [panelHidden EXCEPT ![groupId] =
                               [i \in 1..Len(tabs) |-> ~mark[i]]]

\* window.LAWAgentUI.activateTab(groupId, tabId), with any arguments
ApiActivateTab(groupId, tabId) ==
  /\ ActivateTab(groupId, tabId)
  /\ last' = Op("activate", tabId, "", groupId, "")
  /\ UNCHANGED <<wfVars, isVars, focused>>

\* a click on tab i of group g (line 19); the click also gives the tab the focus
ClickTab(g, i) ==
  /\ ActivateTab(g, GroupTabs[g][i])
  /\ focused' = <<g, i>>
  /\ last' = Op("click", GroupTabs[g][i], "", g, "")
  /\ UNCHANGED <<wfVars, isVars>>

Keys == {"ArrowRight", "ArrowDown", "ArrowLeft", "ArrowUp", "Enter"}

\* the arrow keys stopping at the first and the last tab
NextIndexNoWrap(currentIndex, key, n) ==
  IF key \in {"ArrowRight", "ArrowDown"}
  THEN (IF currentIndex < n THEN currentIndex + 1 ELSE currentIndex)
  ELSE IF key \in {"ArrowLeft", "ArrowUp"}
  THEN (IF currentIndex > 1 THEN currentIndex - 1 ELSE currentIndex)
  ELSE currentIndex

\* lines 40-47, on 1-based indexes
NextIndex(currentIndex, key, n) ==
  IF key \in {"ArrowRight", "ArrowDown"} THEN ((currentIndex - 1 + 1) % n) + 1
  ELSE IF key \in {"ArrowLeft", "ArrowUp"} THEN ((currentIndex - 1 - 1 + n) % n) + 1
  ELSE currentIndex

\* a keydown on the focused tab: handleTabKeydown(event, groupId), lines 32-53
HandleTabKeydown(key) ==
  /\ focused # <<>>
  /\ LET g == focused[1]
         tabs == GroupTabs[g]
         currentIndex == FindIndex(tabs, tabs[focused[2]])
         nextIndex == NextIndex(currentIndex, key, Len(tabs))
     IN /\ IF nextIndex # currentIndex
           THEN /\ ActivateTab(g, tabs[nextIndex])
                /\ focused' = <<g, nextIndex>>
           ELSE UNCHANGED tabVars
        /\ last' = Op("keydown", tabs[focused[2]], key, g, "")
  /\ UNCHANGED <<wfVars, isVars>>

(***************************************************************************)
(* Issue spotter: the submit handler (issue-spotter.js 22-72).             *)
(***************************************************************************)
InitIssueSpotter ==
  /\ isSubmitDisabled = FALSE
  /\ isErrorText = ""
  /\ isStatusText = ""
  /\ isOutput = ""
  /\ isReqs = 0

\* the submit event: `hasFile` is whether a file is chosen, `text` and
\* `instructions` the values of the two textareas (lines 23-45)
IssueSpotterSubmit(hasFile, text, instructions) ==
  /\ IF ~hasFile /\ Trim(text) = <<>>
     THEN /\ isErrorText' = "Upload a document or paste text to analyze."
          /\ last' = [Op("analyze", "", "invalid", "", "")
                       EXCEPT !.focus = "fileInput",
                              !.arg = <<hasFile, text, instructions>>]
          /\ UNCHANGED <<isSubmitDisabled, isStatusText, isReqs>>
     ELSE IF Trim(instructions) = <<>>
     THEN /\ isErrorText' = "Instructions are required."
          /\ last' = [Op("analyze", "", "invalid", "", "")
                       EXCEPT !.focus = "instructionsInput",
                              !.arg = <<hasFile, text, instructions>>]
          /\ UNCHANGED <<isSubmitDisabled, isStatusText, isReqs>>
     ELSE \* setLoading(true); updateStatus(...); submitAnalysis(...) is awaited
          /\ isReqs < MaxAnalyses
          /\ isErrorText' = ""
          /\ isSubmitDisabled' = TRUE
          /\ isStatusText' = "Analyzing"
          /\ isReqs' = isReqs + 1
          /\ last' = [Op("analyze", "", "sent", "", "")
                       EXCEPT !.arg = <<hasFile, text, instructions>>]
  /\ UNCHANGED <<wfVars, tabVars, isOutput>>

\*   transport, unparseable, null: as for the witness finder
\*   non2xx_detail   not ok, the body parses and has a detail
\*   non2xx          not ok, no detail: response.statusText is used
\*   non2xx_bare     not ok, no detail and an empty statusText (as over HTTP/2)
AnalysisOutcomes ==
  {"transport", "non2xx", "non2xx_detail", "non2xx_bare", "unparseable", "null", "ok"}

\* the message handed to showError in the catch block (lines 56-58, 68)
AnalysisErrorMessage(outcome) ==
  CASE outcome = "non2xx_detail" -> "detail"
    [] outcome = "non2xx" -> "status text"
    [] outcome = "non2xx_bare" -> "Analysis failed."
    [] outcome = "transport" -> "fetch error message"
    [] outcome = "unparseable" -> "json error message"
    [] OTHER -> "type error message"

\* an analysis request resolves (lines 47-71): renderResults destructures the
\* body, so a null body throws into the catch block; setLoading(false) runs in
\* the finally block
IssueSpotterResponse(outcome) ==
  /\ isReqs > 0
  /\ isReqs' = isReqs - 1
  /\ IF outcome = "ok"
     THEN /\ isOutput' = "rendered"
          /\ isStatusText' = "Analysis complete."
          /\ ActivateTab("results", "tab-summary")
          /\ last' = Op("analysisResponse", "tab-summary", outcome, "results", "")
          /\ UNCHANGED isErrorText
     ELSE /\ isStatusText' = "Analysis failed."
          /\ isErrorText' = AnalysisErrorMessage(outcome)
          /\ last' = Op("analysisResponse", "", outcome, "", "")
          /\ UNCHANGED <<isOutput, tabActive, tabSelected, tabIndexZero,
                         panelActive, panelHidden>>
  /\ isSubmitDisabled' = FALSE
  /\ UNCHANGED <<wfVars, focused>>

(***************************************************************************)
(* Specifications.                                                         *)
(***************************************************************************)
Init ==
  /\ InitWitnessFinder
  /\ InitBackend({})
  /\ InitSimulator
  /\ InitTabs
  /\ InitIssueSpotter
  /\ last = Op("init", "", "", "", "")

\* the values the filter inputs take in the page's specifications
SmallFilterValues(input) ==
  CASE input = "similarity" -> {<<0>>, <<50>>}
    [] input = "sector" -> {<<>>, <<"b", "A", " ">>}
    [] OTHER -> {}

\* the values they take in the filter's specification
FilterValues(input) ==
  CASE input = "similarity" -> {<<>>, <<50>>}
    [] input = "experience" -> {<<>>, <<5>>}
    [] input = "sector" -> UNION {[1..m -> {"B", " "}] : m \in 0..MaxQueryLen}
    [] OTHER -> UNION {[1..m -> {"a", " "}] : m \in 0..MaxQueryLen}

FilterInputs == {"similarity", "experience", "sector", "location"}

\* the values of a required text field: empty, blank, filled in
FormValues == {<<>>, <<" ">>, <<"x">>}

\* the time between one animation frame and the next, in ms: frames may share
\* a timestamp, and a hidden tab delays them by seconds
FrameSteps == {0, 500, 1300, 3100}

\* the search form: submit, response, the delayed callback
SearchStep(values, outcomes, kinds) ==
  \/ \E industry, description \in values : OnSubmit(industry, description)
  \/ \E outcome \in outcomes :
       \E body \in (IF outcome = "ok" THEN SearchBodies(kinds) ELSE {<<>>}) :
         SearchResponse(outcome, body)
  \/ HideTimerFires

\* the progress simulator: animation frames `steps` apart, the countdown
SimulatorStep(steps) ==
  \/ \E d \in steps : Tick(clock + d)
  \/ EtaTick

\* the issue spotter's form
IssueSpotterStep(values, outcomes) ==
  \/ \E hasFile \in BOOLEAN : \E text, instructions \in values :
       IssueSpotterSubmit(hasFile, text, instructions)
  \/ \E outcome \in outcomes : IssueSpotterResponse(outcome)

\* the save and remove buttons and the responses to their requests
ReconcilerStep(saveOutcomes, deleteOutcomes, fetchOutcomes) ==
  \/ \E k \in 1..MaxResults : HandleSave(k)
  \/ \E i \in 1..MaxPending : \E outcome \in saveOutcomes : HandleSaveResponse(i, outcome)
  \/ \E k \in 1..(MaxResults + 1) : HandleDelete(k)
  \/ \E i \in 1..MaxPending : \E outcome \in deleteOutcomes :
       HandleDeleteResponse(i, outcome)
  \/ \E outcome \in fetchOutcomes :
       \E data \in (IF outcome = "array" THEN SavedLists ELSE {<<>>}) :
         FetchSavedResponse(outcome, data)

\* The witness-finder page: the form, the sector filter, the save and remove
\* buttons.  Requests succeed with status ok or fail with a non-2xx response;
\* the cosmetic simulator is left to SpecProgress.
Next ==
  \/ SearchStep({<<"x">>}, {"ok", "non2xx"}, {"array"})
  \/ \E value \in SmallFilterValues("sector") : HandleFilters("sector", value)
  \/ \E value \in SmallFilterValues("sector") : EditFilterText("sector", value)
  \/ ReconcilerStep({"ok", "non2xx"}, {"ok", "non2xx"}, {"array"})

Spec == Init /\ [][Next]_vars

\* The search form alone, with every outcome of the request and of validation,
\* the clock standing still.
NextSearch ==
  \/ SearchStep(FormValues, SearchOutcomes, BodyKinds)
  \/ SimulatorStep({0})
  \/ \E input \in FilterInputs : \E value \in SmallFilterValues(input) :
       HandleFilters(input, value)
  \/ \E value \in SmallFilterValues("sector") : EditFilterText("sector", value)

SpecSearch == Init /\ [][NextSearch]_vars

\* The progress simulator over searches that return no candidate, with frames
\* at every spacing of FrameSteps.
NextProgress ==
  \/ SearchStep({<<"x">>}, {"ok", "non2xx"}, {"absent"})
  \/ SimulatorStep(FrameSteps)

SpecProgress == Init /\ [][NextProgress]_vars

\* The two forms, with every outcome of validation and of their requests.
NextForms ==
  \/ SearchStep(FormValues, SearchOutcomes, {"absent"})
  \/ IssueSpotterStep(FormValues, AnalysisOutcomes)

SpecForms == Init /\ [][NextForms]_vars

\* The same, a scheduled setTimeout callback firing in the end.
SpecFormsFair == SpecForms /\ WF_vars(HideTimerFires)

\* The page once a search has put `candidates` on it and the loading view has
\* been hidden again, fetchSaved() still pending: a state Spec reaches by
\* OnSubmit, SearchResponse and HideTimerFires.
AfterSearch(candidates) ==
  /\ loading = FALSE
  /\ results = candidates
  /\ filtered = candidates
  /\ saved = <<>>
  /\ filterSimilarity = <<0>>
  /\ filterExperience = <<0>>
  /\ filterSector = <<>>
  /\ filterLocation = <<>>
  /\ cards = RenderResults(candidates, <<>>)
  /\ savedCards = <<>>
  /\ emptyHidden = TRUE
  /\ submitDisabled = FALSE
  /\ formHidden = FALSE
  /\ loadingHidden = TRUE
  /\ errorText = ""
  /\ statusText = (IF Len(candidates) > 0 THEN "Found candidates"
                   ELSE "No candidates returned. Try refining your query.")
  /\ searchReqs = 0
  /\ saveReqs = <<>>
  /\ deleteReqs = <<>>
  /\ fetchPending = TRUE
  /\ rafLive = 0
  /\ etaLive = 0
  /\ hideTimers = <<>>
  /\ progress = 0
  /\ currentSegment = 0
  /\ segmentStart = 0
  /\ progressText = CompletedProgress
  /\ etaText = 0
  /\ clock = 0
  /\ openTimers = <<>>
  /\ opened = <<>>
  /\ clipWrites = <<>>
  /\ InitTabs
  /\ InitIssueSpotter
  /\ last = Op("hideTimer", "", "", "", "")

\* The reconciler on the results of one search, with every outcome of the
\* save, delete and fetch-saved requests.
InitReconciler ==
  /\ \E candidates \in DistinctSeqs(Catalog, MaxResults) : AfterSearch(candidates)
  /\ InitBackend({})

NextReconciler ==
  \/ \E input \in FilterInputs : \E value \in SmallFilterValues(input) :
       HandleFilters(input, value)
  \/ ReconcilerStep(SaveOutcomes, DeleteOutcomes, FetchOutcomes)

SpecReconciler == InitReconciler /\ [][NextReconciler]_vars

\* The filter engine on every Result Set over FilterCatalog and every value of
\* the four inputs.
InitFilter ==
  /\ \E candidates \in DistinctSeqs(FilterCatalog, MaxResults) : AfterSearch(candidates)
  /\ InitBackend({})

NextFilter ==
  \E input \in FilterInputs : \E value \in FilterValues(input) :
    HandleFilters(input, value)

SpecFilter == InitFilter /\ [][NextFilter]_vars

\* The reconciler against the saved store: the store holds any of the
\* candidates at the start, applies every request and answers it, and the
\* responses resolve in any order.
InitStore ==
  /\ \E candidates \in DistinctSeqs(Catalog, MaxResults) : AfterSearch(candidates)
  /\ \E ids \in SUBSET Ids : InitBackend(ids)

BackendStep ==
  \/ \E i \in 1..MaxPending : BackendSave(i)
  \/ \E i \in 1..MaxPending : \E status \in {"ok", "other"} : BackendDelete(i, status)
  \/ BackendFetch

NextStore ==
  \/ BackendStep
  \/ \E k \in 1..MaxResults : HandleSave(k)
  \/ \E k \in 1..(MaxResults + 1) : HandleDelete(k)
  \/ \E i \in 1..MaxPending :
       i <= Len(saveReqs) /\ backend.saves[i] # ""
         /\ HandleSaveResponse(i, backend.saves[i])
  \/ \E i \in 1..MaxPending :
       i <= Len(deleteReqs) /\ backend.deletes[i] # ""
         /\ HandleDeleteResponse(i, backend.deletes[i])
  \/ backend.fetch # <<>> /\ FetchSavedResponse("array", backend.fetch[1])

SpecStore == InitStore /\ [][NextStore]_vars

\* the urls of a candidate's sources
SourceLists == UNION {[1..n -> {"", "u", "v"}] : n \in 0..MaxSources}

\* Open all sources on a candidate with any list of sources.
NextSources ==
  \/ \E sources \in SourceLists : OpenSources(sources)
  \/ OpenTimerFires

SpecSources == Init /\ [][NextSources]_vars

\* the candidates whose Copy button is clicked: every field absent or
\* present, the name and the title also present and empty, the numbers also 0
CopyCandidates ==
  [name : {<<>>, <<"">>, <<"n">>},
   title : {<<>>, <<"">>, <<"t">>},
   organization : {<<>>, <<"o">>},
   sector : {<<>>, <<"s">>},
   location : {<<>>, <<"l">>},
   years_experience : {<<>>, <<0>>, <<5>>},
   similarity_score : {<<>>, <<0>>, <<90>>},
   summary : {<<>>, <<"m">>},
   skills : {<<>>, <<<<>>>>, <<<<"k", "j">>>>},
   links : {<<>>, <<<<"u">>>>}]

\* Copy on any candidate.
NextCopy ==
  \/ \E candidate \in CopyCandidates : CopyCandidate(candidate)
  \/ \E granted \in BOOLEAN : ClipboardSettles(granted)

SpecCopy == Init /\ [][NextCopy]_vars

\* the tab controller, with the issue spotter that calls it
NextTabs ==
  \/ \E g \in Registered : \E i \in 1..Len(GroupTabs[g]) : ClickTab(g, i)
  \/ \E key \in Keys : HandleTabKeydown(key)
  \/ \E groupId \in GroupIdArgs : \E tabId \in TabIdArgs : ApiActivateTab(groupId, tabId)
  \/ IssueSpotterStep({<<"x">>}, {"ok", "non2xx"})

SpecTabs == Init /\ [][NextTabs]_vars

(***************************************************************************)
(* Properties.                                                             *)
(***************************************************************************)
\* the save requests in flight for candidate id
SavesInFlight(id) == {i \in 1..Len(saveReqs) : saveReqs[i].cand.id = id}

\* the pending save request a saveResponse step for `id` has just answered
Answered(i, id) ==
  /\ i \in 1..Len(saveReqs)
  /\ saveReqs[i].cand.id = id
  /\ saveReqs' = RemoveAt(saveReqs, i)

\* C1: for every candidate, at no point are two save requests for the same
\* candidate id in flight (a save clicked while one is pending is ignored).
C1_OneSaveInFlight ==
  \A id \in {c.id : c \in Catalog} : Cardinality(SavesInFlight(id)) <= 1

\* C2: a submit that arrives while a search request is in flight sends no
\* request, starts no second progress simulator and changes neither the Result
\* Set nor anything else of the page; at most one search request, one animation
\* chain and one countdown are ever live.
C2_SubmitReentrancyGuard ==
  /\ [](searchReqs <= 1 /\ rafLive <= 1 /\ etaLive <= 1)
  /\ [][(last'.op = "submit" /\ searchReqs > 0) => UNCHANGED wfVars]_vars

\* a submit has arrived while the search request was in flight
C2_Witness ==
  last.op = "submit" /\ last.outcome = "ignored" /\ searchReqs = 1 /\ rafLive = 1

\* C3: the response to delete(id) removes the entry of id, and only that entry,
\* from state.saved when it is 2xx with status "ok"; after any other outcome
\* state.saved is what it was before the response.
C3_DeleteOnlyOnOk ==
  [][last'.op = "deleteResponse" =>
       IF last'.outcome = "ok"
       THEN /\ ~MapHas(saved', last'.id)
            /\ saved' = SelectSeq(saved, LAMBDA e : e.key # last'.id)
       ELSE saved' = saved]_vars

\* a 2xx delete response with another status has left the entry in the cache
C3_Witness ==
  /\ last.op = "deleteResponse"
  /\ last.outcome = "other"
  /\ last.had
  /\ MapHas(saved, last.id)

\* C4: when a save request fails (transport error or non-2xx), state.saved is
\* unchanged, a failure toast is shown and the save control of the candidate
\* is enabled afterwards.
C4_FailedSaveLeavesControlEnabled ==
  [][(last'.op = "saveResponse" /\ last'.outcome \in {"transport", "non2xx"}) =>
       /\ saved' = saved
       /\ last'.toast = "Unable to save candidate."
       /\ \A i \in 1..Len(saveReqs) :
            (Answered(i, last'.id) /\ saveReqs[i].btn # 0)
              => ~cards'[saveReqs[i].btn].disabled]_vars

\* C5: state.saved never holds two entries for one id; a save answered with
\* status "duplicate" for an id already in the cache leaves the same keys, the
\* same number of entries, and shows the "Already saved." toast, not an error.
C5_SaveIdempotent ==
  /\ [](\A i, j \in 1..Len(saved) : saved[i].key = saved[j].key => i = j)
  /\ [][(last'.op = "saveResponse" /\ last'.outcome = "duplicate"
         /\ MapHas(saved, last'.id)) =>
          /\ MapKeys(saved') = MapKeys(saved)
          /\ Len(saved') = Len(saved)
          /\ Cardinality({i \in 1..Len(saved') : saved'[i].key = last'.id}) = 1
          /\ last'.toast = "Already saved."]_vars

\* a save of a candidate already in the cache has been answered "duplicate"
C5_Witness ==
  /\ last.op = "saveResponse"
  /\ last.outcome = "duplicate"
  /\ last.had
  /\ MapHas(saved, last.id)

\* C6 as stated: after any 2xx save response the candidate is in the cache
\* under its id and the button that sent the request reads Saved and is
\* disabled.
C6_Any2xxSaves ==
  [][(last'.op = "saveResponse" /\ last'.outcome \notin {"transport", "non2xx"}) =>
       /\ MapHas(saved', last'.id)
       /\ \A i \in 1..Len(saveReqs) :
            (Answered(i, last'.id) /\ saveReqs[i].btn # 0)
              => /\ cards'[saveReqs[i].btn].disabled
                 /\ cards'[saveReqs[i].btn].text = "Saved"]_vars

\* C6, amended: after a 2xx save response whose body is a JSON object, whatever
\* its status, the candidate is in the cache under its id (the entry of every
\* other id untouched) and the button that sent the request reads Saved and is
\* disabled; status "duplicate" differs from any other only in the toast.
C6_ObjectBodySaves ==
  [][(last'.op = "saveResponse" /\ last'.outcome \in {"ok", "duplicate", "other"}) =>
       /\ \E e \in {saved'[j] : j \in 1..Len(saved')} :
            e.key = last'.id /\ e.value.id = last'.id
       /\ \A j \in 1..Len(saved) : saved[j].key # last'.id => saved'[j] = saved[j]
       /\ MapKeys(saved') = MapKeys(saved) \cup {last'.id}
       /\ \A i \in 1..Len(saveReqs) :
            (Answered(i, last'.id) /\ saveReqs[i].btn # 0)
              => /\ cards'[saveReqs[i].btn].disabled
                 /\ cards'[saveReqs[i].btn].text = "Saved"
       /\ last'.toast = (IF last'.outcome = "duplicate" THEN "Already saved."
                         ELSE "Candidate saved.")]_vars

\* a save answered "duplicate" has put a candidate that was not in the cache
\* into it and marked its button, which is still in the document
C6_Witness ==
  /\ last.op = "saveResponse"
  /\ last.outcome = "duplicate"
  /\ ~last.had
  /\ MapHas(saved, last.id)
  /\ \E k \in 1..Len(cards) :
       cards[k].cand.id = last.id /\ cards[k].disabled /\ cards[k].text = "Saved"

\* the text with its leading and trailing white space removed, said directly
Stripped(q) ==
  LET inked == {i \in 1..Len(q) : q[i] # " "}
  IN IF inked = {} THEN <<>>
     ELSE SubSeq(q, CHOOSE i \in inked : \A j \in inked : i <= j,
                    CHOOSE i \in inked : \A j \in inked : j <= i)

\* s contains q, letter case ignored
ContainsIgnoringCase(s, q) ==
  \E k \in 0..(Len(s) - Len(q)) :
    \A j \in 1..Len(q) : LowerChar(s[k + j]) = LowerChar(q[j])

\* the four conditions of spec section 4.3 on one candidate
MeetsAll(c, minSimilarity, minExperience, sectorFilter, locationFilter) ==
  /\ c.similarity_score >= minSimilarity
  /\ (IF c.years_experience = <<>> THEN 0 ELSE c.years_experience[1]) >= minExperience
  /\ (sectorFilter = <<>> \/ ContainsIgnoringCase(c.sector, sectorFilter))
  /\ (locationFilter = <<>> \/ ContainsIgnoringCase(c.location, locationFilter))

\* the indexes of the Result Set whose candidates meet the conditions
Kept(sectorFilter, locationFilter) ==
  {i \in 1..Len(results) :
     MeetsAll(results[i], NumberOrZero(filterSimilarity),
              NumberOrZero(filterExperience), sectorFilter, locationFilter)}

\* `view` is the sub-sequence of the Result Set at the indexes `kept`
IsSubsequenceAt(view, kept) ==
  /\ Len(view) = Cardinality(kept)
  /\ \A i \in kept :
       view[Cardinality({j \in kept : j <= i})] = results[i]

\* C7 as stated: the Filtered View is the sub-sequence of the Result Set of the
\* candidates that meet the four conditions, the sector and location filters
\* taken as typed; filtering does not modify the Result Set.
C7_FilteredViewAsTyped ==
  /\ [] IsSubsequenceAt(filtered, Kept(filterSector, filterLocation))
  /\ [][last'.op = "filters" => results' = results]_vars

\* C7, amended: the same, the sector and location filters taken with their
\* leading and trailing white space removed.
C7_FilteredViewStripped ==
  /\ [] IsSubsequenceAt(filtered, Kept(Stripped(filterSector), Stripped(filterLocation)))
  /\ [][last'.op = "filters" => results' = results]_vars

\* a sector filter typed with a leading blank keeps some candidates and drops
\* others
C7_Witness ==
  /\ last.op = "filters"
  /\ filterSector = <<" ", "B">>
  /\ Len(filtered) > 0
  /\ Len(filtered) < Len(results)

\* C8: the cached Filtered View is the filter applied to the current Result
\* Set and the current values of the four filter inputs; no operation leaves a
\* view computed from older parameters.
C8_FilteredViewCurrent == filtered = CurrentFilters(results)

\* C9: in every group exactly one tab is marked active and selected, and
\* exactly one panel, the one that tab controls, is visible.
C9_ExactlyOneActive ==
  \A g \in Registered :
    \E i \in 1..Len(GroupTabs[g]) :
      /\ tabActive[g][i] /\ tabSelected[g][i] /\ ~panelHidden[g][i]
      /\ \A j \in 1..Len(GroupTabs[g]) :
           j # i => (~tabActive[g][j] /\ ~tabSelected[g][j] /\ panelHidden[g][j])

\* C10: activateTab with a group id that is not registered, or with a tab id
\* that is not a tab of the named group, leaves the selected state of every
\* tab and the visibility of every panel unchanged.
C10_UnknownIdsAreNoOps ==
  [][(/\ last'.op = "activate"
      /\ \/ last'.group \notin Registered
         \/ FindIndex(GroupTabs[last'.group], last'.id) = 0) =>
       UNCHANGED <<tabActive, tabSelected, tabIndexZero, panelActive, panelHidden>>]_vars

\* the state of the tabs and panels of group g
GroupState(g) ==
  <<tabActive[g], tabSelected[g], tabIndexZero[g], panelActive[g], panelHidden[g]>>

\* in group g, tab j alone is active and selected and its panel alone visible
OnlyActive(g, j) ==
  \A k \in 1..Len(GroupTabs[g]) :
    /\ tabActive[g][k] = (k = j)
    /\ tabSelected[g][k] = (k = j)
    /\ panelHidden[g][k] = (k # j)

\* C11: an arrow-forward key on the focused tab at (0-based) index i of a
\* group of N tabs activates and focuses the tab at index (i+1) mod N, an
\* arrow-back key the tab at index (i-1) mod N, whichever tab was active.
C11_ArrowKeysWrap ==
  [][(last'.op = "keydown" /\ focused # <<>>
      /\ last'.outcome \in {"ArrowRight", "ArrowDown", "ArrowLeft", "ArrowUp"}) =>
       LET g == focused[1]
           n == Len(GroupTabs[g])
           i == focused[2] - 1
           j == IF last'.outcome \in {"ArrowRight", "ArrowDown"}
                THEN (i + 1) % n
                ELSE (i + n - 1) % n
       IN /\ focused' = <<g, j + 1>>
          /\ \A k \in 1..n :
               /\ tabActive'[g][k] = (k = j + 1)
               /\ tabSelected'[g][k] = (k = j + 1)
               /\ panelHidden'[g][k] = (k # j + 1)]_vars

\* arrow-forward on the last tab of the four-tab group has activated and
\* focused the first
C11_Witness ==
  /\ last.op = "keydown"
  /\ last.outcome = "ArrowRight"
  /\ last.id = "tab-json"
  /\ focused = <<"results", 1>>
  /\ OnlyActive("results", 1)

\* C12: a click, an arrow key or an activate call in one group leaves the
\* tabs and panels of every other registered group as they were.
C12_GroupsIndependent ==
  [][\A g \in Registered : last'.group # g => GroupState(g)' = GroupState(g)]_vars

\* the second group has been navigated by keyboard while the first group kept
\* the tab that was activated in it before
C12_Witness ==
  /\ last.op = "keydown"
  /\ last.group = "tab-group-1"
  /\ OnlyActive("tab-group-1", 2)
  /\ OnlyActive("results", 3)

\* C13: a successful delete of a candidate removes it from state.saved and
\* from the saved list and changes nothing else of the data: the Result Set
\* is what it was, and the Filtered View holds the same candidates in the
\* same order as before.
C13_DeleteLeavesView ==
  [][(last'.op = "deleteResponse" /\ last'.outcome = "ok") =>
       /\ saved' = SelectSeq(saved, LAMBDA e : e.key # last'.id)
       /\ savedCards' = [i \in 1..Len(saved') |-> saved'[i].value]
       /\ results' = results
       /\ filtered' = filtered]_vars

\* the value state.saved holds for key k
ValueOf(m, k) == (CHOOSE e \in {m[i] : i \in 1..Len(m)} : e.key = k).value

\* C14: the response to fetchSaved adds to state.saved exactly the entries of
\* the answered list that carry an id, each under its id, and touches no other
\* entry; a response that is no array adds nothing; a failed request (transport
\* error, non-2xx) shows no toast and leaves the cache, the cards and the
\* pending saves as they were.
C14_FetchSavedLoads ==
  [][last'.op = "fetchSaved" =>
       /\ last'.toast = ""
       /\ IF last'.outcome = "array"
          THEN LET data == last'.arg
                   withId == {data[i] : i \in {j \in 1..Len(data) : data[j].id # ""}}
               IN /\ MapKeys(saved') = MapKeys(saved) \cup {c.id : c \in withId}
                  /\ \A c \in withId : ValueOf(saved', c.id) = c
                  /\ \A k \in MapKeys(saved) \ {c.id : c \in withId} :
                       ValueOf(saved', k) = ValueOf(saved, k)
                  /\ Len(saved') = Cardinality(MapKeys(saved'))
          ELSE saved' = saved
       /\ last'.outcome \in {"transport", "non2xx"} =>
            /\ savedCards' = savedCards
            /\ cards' = cards
            /\ saveReqs' = saveReqs
            /\ deleteReqs' = deleteReqs]_vars

\* the backend's list held an entry without an id before candidate b: only b
\* has been added to a cache that already held a
C14_Witness ==
  /\ last.op = "fetchSaved"
  /\ last.outcome = "array"
  /\ last.arg = <<CandNoId, CandB>>
  /\ MapKeys(saved) = {"a", "b"}
  /\ Len(saved) = 2

\* C15: a successful search response makes the Result Set the candidates of
\* that response, in response order, none of the previous Result Set kept; a
\* body whose `candidates` is absent or no array makes it empty.
C15_ResultsReplaced ==
  [][(last'.op = "searchResponse" /\ last'.outcome = "ok") =>
       results' = (IF last'.arg.kind = "array" THEN last'.arg.candidates ELSE <<>>)]_vars

\* a response with candidate b alone has arrived on a page whose Result Set
\* held candidates
C15_Witness ==
  /\ last.op = "searchResponse"
  /\ last.outcome = "ok"
  /\ last.had
  /\ last.arg.kind = "array"
  /\ results = <<CandB>>

\* C16: after every search response and every filter change the no-matches
\* element is shown exactly when the Result Set is non-empty and the Filtered
\* View is empty; with an empty Result Set it is not shown.
C16_NoMatchesState ==
  [][last'.op \in {"searchResponse", "filters"} =>
       (~emptyHidden') = (Len(results') > 0 /\ Len(filtered') = 0)]_vars

\* a filter change has emptied the view of a non-empty Result Set
C16_Witness ==
  /\ last.op = "filters"
  /\ Len(results) > 0
  /\ filtered = <<>>
  /\ ~emptyHidden

\* the witness finder takes a submit: nothing is loading, the loading view is
\* hidden, the form is shown and its submit button enabled
Interactive == ~loading /\ loadingHidden /\ ~formHidden /\ ~submitDisabled

\* C17: when a search request resolves, with whatever outcome, the loading
\* flag is cleared and the submit button enabled at once, so that a new submit
\* is accepted, and the page eventually shows the form with the loading view
\* hidden, unless a new search has been started before that; when an analysis
\* request of the issue spotter resolves, with whatever outcome, its submit
\* button is enabled.
C17_ReturnsToInteractive ==
  /\ (last.op = "searchResponse") ~> (Interactive \/ searchReqs > 0)
  /\ [][last'.op = "searchResponse" => (~loading' /\ ~submitDisabled')]_vars
  /\ [][last'.op = "analysisResponse" => ~isSubmitDisabled']_vars

\* the form is back, and focused, after a search that failed
C17_Witness ==
  /\ last.op = "hideTimer"
  /\ last.focus = "firstInput"
  /\ errorText = "fetch error message"
  /\ Interactive

\* C18: the step that completes a search sets the percentage to 100 and the
\* countdown to 0 and leaves no animation frame and no countdown tick
\* scheduled; from then until the next search starts nothing changes the two
\* readings; the completion itself leaves the loading view and the form as
\* they are and schedules the callback that, later, hides the one and shows
\* the other.
C18_CompletionStopsSimulator ==
  /\ [][last'.op = "searchResponse" =>
         /\ progressText' = 100 /\ etaText' = 0
         /\ rafLive' = 0 /\ etaLive' = 0
         /\ loadingHidden' = loadingHidden /\ formHidden' = formHidden
         /\ Len(hideTimers') = Len(hideTimers) + 1]_vars
  /\ []((~loading /\ statusText # "") =>
         (progressText = 100 /\ etaText = 0 /\ rafLive = 0 /\ etaLive = 0))
  /\ [][last'.op = "hideTimer" =>
         (Len(hideTimers') = Len(hideTimers) - 1 /\ loadingHidden' /\ ~formHidden')]_vars

\* a search has completed while its simulator was in the second segment, and
\* the delayed callback has since restored the form
C18_Witness ==
  /\ last.op = "hideTimer"
  /\ ~loading
  /\ currentSegment = 1
  /\ progressText = 100
  /\ etaText = 0
  /\ loadingHidden
  /\ ~formHidden

\* C19: while a search is loading, no step lowers the percentage shown or
\* takes it above 98, and no step raises the countdown or takes it below 0;
\* a run starts at 0% and at a countdown of 6.
C19_ProgressMonotone ==
  /\ [][(loading /\ loading') =>
         /\ progressText' >= progressText /\ progressText' <= 98
         /\ etaText' <= etaText /\ etaText' >= 0]_vars
  /\ [][(last'.op = "submit" /\ last'.outcome = "sent") =>
         (progressText' = 0 /\ etaText' = 6)]_vars

\* a run has gone through its three segments and its whole countdown
C19_Witness ==
  /\ loading
  /\ last.op = "tick"
  /\ currentSegment = 2
  /\ progressText = 98
  /\ etaText = 0

\* the text holds nothing but white space
Blank(text) == \A i \in 1..Len(text) : text[i] = " "

\* C20: a submit with a required field missing (witness search: industry or
\* description; issue spotter: neither file nor text, or no instructions)
\* sends no request and enters no loading state, shows the error in the form
\* and moves the focus to an offending field.
C20_ValidationBeforeNetwork ==
  /\ [][(/\ last'.op = "submit"
          /\ ~loading
          /\ (Blank(last'.arg[1]) \/ Blank(last'.arg[2]))) =>
         /\ searchReqs' = searchReqs
         /\ ~loading' /\ rafLive' = rafLive /\ ~formHidden' = ~formHidden
         /\ errorText' # ""
         /\ last'.focus \in {f \in {"industry", "description"} :
                               \/ (f = "industry" /\ Blank(last'.arg[1]))
                               \/ (f = "description" /\ Blank(last'.arg[2]))}]_vars
  /\ [][(/\ last'.op = "analyze"
          /\ \/ (~last'.arg[1] /\ Blank(last'.arg[2]))
             \/ Blank(last'.arg[3])) =>
         /\ isReqs' = isReqs
         /\ isSubmitDisabled' = isSubmitDisabled
         /\ isErrorText' # ""
         /\ last'.focus \in {f \in {"fileInput", "textInput", "instructionsInput"} :
                               \/ (f \in {"fileInput", "textInput"}
                                   /\ ~last'.arg[1] /\ Blank(last'.arg[2]))
                               \/ (f = "instructionsInput" /\ Blank(last'.arg[3]))}]_vars

\* the delete requests in flight for candidate id
DeletesInFlight(id) == {i \in 1..Len(deleteReqs) : deleteReqs[i] = id}

\* C21: for every saved candidate, at no point are two delete requests for the
\* same id in flight (a remove clicked while a delete is pending is ignored).
C21_OneDeleteInFlight ==
  \A id \in {c.id : c \in Catalog} : Cardinality(DeletesInFlight(id)) <= 1

\* C22: every delete response that is not a 2xx with status "ok" (transport
\* failure, non-2xx, a 2xx with another status) shows the failure toast.
C22_FailedDeleteToasts ==
  [][(last'.op = "deleteResponse" /\ last'.outcome # "ok") =>
       last'.toast = "Unable to remove candidate."]_vars

\* C23: after a non-2xx response to a search or an analysis request the error
\* shown is the detail of the JSON body when the body parses and has one, and
\* the HTTP status text of the response otherwise.
C23_DetailOrStatusText ==
  /\ [][last'.op = "searchResponse" =>
          /\ (last'.outcome = "non2xx_detail" => errorText' = "detail")
          /\ (last'.outcome = "non2xx" => errorText' = "status text")]_vars
  /\ [][last'.op = "analysisResponse" =>
          /\ (last'.outcome = "non2xx_detail" => isErrorText' = "detail")
          /\ (last'.outcome = "non2xx" => isErrorText' = "status text")]_vars

\* C24: for save and delete requests on the same id, the cache follows the
\* order in which the responses resolve: a save that succeeds (status ok or
\* duplicate) leaves the id in state.saved, a delete that succeeds (status ok)
\* leaves it out, whatever else is still pending for the id; a request that
\* fails (transport error, non-2xx, a delete answered with another status)
\* and the sending of a request leave state.saved as it was.
C24_LastResolvedSuccessWins ==
  /\ [][(last'.op = "saveResponse" /\ last'.outcome \in {"ok", "duplicate"}) =>
          MapHas(saved', last'.id)]_vars
  /\ [][(last'.op = "deleteResponse" /\ last'.outcome = "ok") =>
          ~MapHas(saved', last'.id)]_vars
  /\ [][(/\ last'.op \in {"saveResponse", "deleteResponse"}
          /\ last'.outcome \in {"transport", "non2xx"}) => saved' = saved]_vars
  /\ [][(last'.op = "deleteResponse" /\ last'.outcome = "other") =>
          saved' = saved]_vars
  /\ [][last'.op \in {"save", "delete", "filters"} => saved' = saved]_vars

\* a delete of candidate a, issued after a save of a that is still pending,
\* has resolved first: a is out of the cache until that save resolves
C24_Witness ==
  /\ last.op = "deleteResponse"
  /\ last.outcome = "ok"
  /\ last.id = "a"
  /\ last.had
  /\ SavesInFlight("a") # {}
  /\ ~MapHas(saved, "a")

\* state.saved as a mapping: its set of entries, insertion order forgotten
Entries(m) == {m[i] : i \in 1..Len(m)}

\* state.saved after the response `outcome` to the pending request `req`
AfterResponse(m, req, outcome) ==
  IF req.kind = "save" THEN SavedAfterSave(m, req.cand, outcome)
  ELSE SavedAfterDelete(m, req.id, outcome)

\* the requests in flight, and the id and the possible outcomes of each
PendingRequests ==
  {[kind |-> "save", cand |-> saveReqs[i].cand, id |-> saveReqs[i].cand.id] :
      i \in 1..Len(saveReqs)}
  \cup {[kind |-> "delete", cand |-> CandNoId, id |-> deleteReqs[i]] :
          i \in 1..Len(deleteReqs)}

OutcomesOf(req) == IF req.kind = "save" THEN SaveOutcomes ELSE DeleteOutcomes

\* C25: requests on different ids are independent.  The response to a request
\* on one id leaves the cache entry of every other id as it was; and for two
\* pending requests on different ids, and any outcomes of the two, the cache
\* holds the same entries whichever response resolves first.
C25_DistinctIdsIndependent ==
  /\ [][last'.op \in {"saveResponse", "deleteResponse"} =>
          \A k \in (MapKeys(saved) \cup MapKeys(saved')) \ {last'.id} :
            /\ MapHas(saved, k) /\ MapHas(saved', k)
            /\ ValueOf(saved', k) = ValueOf(saved, k)]_vars
  /\ [](\A r1, r2 \in PendingRequests :
          r1.id # r2.id =>
            \A o1 \in OutcomesOf(r1), o2 \in OutcomesOf(r2) :
              Entries(AfterResponse(AfterResponse(saved, r1, o1), r2, o2))
                = Entries(AfterResponse(AfterResponse(saved, r2, o2), r1, o1)))

\* a delete of a has resolved while a save of b was pending: b's absence from
\* the cache and the other entries are untouched, and the save is still due
C25_Witness ==
  /\ last.op = "deleteResponse"
  /\ last.outcome = "ok"
  /\ last.id = "a"
  /\ last.had
  /\ SavesInFlight("b") # {}
  /\ ~MapHas(saved, "a")

\* C27: once no request is pending, every card of the results view has its
\* save button reading Saved and disabled if and only if the candidate's id is
\* in state.saved.
C27_SaveControlsMatchCache ==
  (Pending = 0 /\ ~fetchPending /\ searchReqs = 0) =>
    \A k \in 1..Len(cards) :
      (cards[k].text = "Saved" /\ cards[k].disabled) <=> MapHas(saved, cards[k].cand.id)

\* C28: whenever a witness search request is in flight the loading view is
\* visible and the form is hidden.
C28_LoadingViewWhileSearching ==
  searchReqs > 0 => (~loadingHidden /\ formHidden)

\* C29: a search that fails (transport error, non-2xx response, a 2xx body
\* that does not parse) leaves the Result Set, the Filtered View and its
\* cards, the cache and the filter inputs as they were: neither its submit nor
\* its response changes them.
C29_FailedSearchKeepsResults ==
  [][(\/ last'.op = "submit"
      \/ (last'.op = "searchResponse" /\ last'.outcome # "ok")) =>
       UNCHANGED <<results, filtered, cards, emptyHidden, saved, savedCards,
                   filterSimilarity, filterExperience, filterSector,
                   filterLocation>>]_vars

\* a search has failed over the results of an earlier one, which are still
\* there
C29_Witness ==
  /\ last.op = "searchResponse"
  /\ last.outcome \in {"transport", "non2xx"}
  /\ last.had
  /\ results # <<>>
  /\ filtered # <<>>
  /\ errorText # ""

\* C26: with a store that applies each request atomically and never fails,
\* once every issued request (fetch-saved, saves, deletes) has resolved, the
\* ids of state.saved are the ids of the store, for every order in which the
\* responses arrive.
C26_CacheEqualsStore ==
  (Pending = 0 /\ ~fetchPending) => MapKeys(saved) = backend.store

\* C26, amended: ... provided every response has arrived in the order in which
\* the store applied the requests.
C26_CacheEqualsStoreInOrder ==
  (Pending = 0 /\ ~fetchPending /\ ~backend.reordered) =>
    MapKeys(saved) = backend.store

\* a delete has resolved last, in order, with the store and the cache both
\* holding b alone
C26_Witness ==
  /\ Pending = 0
  /\ ~fetchPending
  /\ ~backend.reordered
  /\ last.op = "deleteResponse"
  /\ last.outcome = "ok"
  /\ backend.store = {"b"}
  /\ MapKeys(saved) = {"b"}

\* the first n non-empty urls of a list, in the order of the list
RECURSIVE FirstNonEmpty(_, _)
FirstNonEmpty(urls, n) ==
  IF urls = <<>> \/ n = 0 THEN <<>>
  ELSE IF Head(urls) = "" THEN FirstNonEmpty(Tail(urls), n)
  ELSE <<Head(urls)>> \o FirstNonEmpty(Tail(urls), n - 1)

\* C30: Open all sources schedules one window for each of the first 4
\* non-empty source urls of the candidate, in their order, the k-th one 150 ms
\* times (k-1) after the click, and they open in that order, at most 4 of
\* them; with no source url it schedules nothing and shows a toast.
C30_OpensFirstFourSources ==
  /\ [][last'.op = "openSources" =>
          LET due == FirstNonEmpty(last'.arg, 4)
          IN /\ Len(openTimers') = Len(due)
             /\ \A k \in 1..Len(due) :
                  openTimers'[k] = [url |-> due[k], delay |-> 150 * (k - 1)]
             /\ opened' = <<>>
             /\ (due = <<>>) <=>
                  (last'.toast = "No sources available for this candidate.")
             /\ (due # <<>>) <=> (last'.toast = "")]_vars
  /\ [][last'.op = "openWindow" =>
          /\ opened' = Append(opened, openTimers[1].url)
          /\ openTimers' = Tail(openTimers)
          /\ \A k \in 1..Len(openTimers) : openTimers[1].delay <= openTimers[k].delay]_vars
  /\ [](Len(opened) + Len(openTimers) <= 4)

\* the candidate had five sources with a url and one without: four windows
\* are scheduled, the last of them 450 ms after the click, the fifth url left
C30_Witness ==
  /\ last.op = "openSources"
  /\ last.arg = <<"u", "", "v", "v", "u", "v">>
  /\ last.toast = ""
  /\ Len(openTimers) = 4
  /\ openTimers[4] = [url |-> "u", delay |-> 450]

\* the copied fields in the order of the summary, with the label of each
CopyFields ==
  <<<<"name", "Name">>, <<"title", "Title">>, <<"organization", "Organization">>,
    <<"sector", "Sector">>, <<"location", "Location">>,
    <<"years_experience", "Years experience">>, <<"similarity_score", "Similarity">>,
    <<"summary", "Summary">>, <<"skills", "Skills">>, <<"links", "Links">>>>

\* the field is present and not empty: a number, a string other than '', an
\* array with an entry
Filled(candidate, field) ==
  /\ candidate[field] # <<>>
  /\ field \in {"years_experience", "similarity_score"}
       \/ (field \in {"skills", "links"} /\ candidate[field][1] # <<>>)
       \/ (field \notin {"skills", "links"} /\ candidate[field][1] # "")

\* the lines the summary is to hold: one per filled field, in the fixed order
RECURSIVE ExpectedLines(_, _)
ExpectedLines(candidate, k) ==
  IF k > Len(CopyFields) THEN <<>>
  ELSE (IF Filled(candidate, CopyFields[k][1])
        THEN <<[label |-> CopyFields[k][2], value |-> candidate[CopyFields[k][1]]]>>
        ELSE <<>>)
       \o ExpectedLines(candidate, k + 1)

\* the text holds exactly the lines `expected`, label and value, in order
SameLines(text, expected) ==
  /\ Len(text) = Len(expected)
  /\ \A i \in 1..Len(text) : text[i].label = expected[i].label
  /\ \A i \in 1..Len(text) : text[i].value = expected[i].value

\* C31: the copied summary of a candidate holds one line for each field that
\* is present and non-empty and no line for a field that is empty or absent,
\* in the order name, title, organization, sector, location, years
\* experience, similarity, summary, skills, links.
C31_CopyOmitsEmptyFields ==
  [][last'.op = "copy" =>
       SameLines(clipWrites'[1], ExpectedLines(last'.arg, 1))]_vars

====
